---- MODULE Spec2Model ----
(***************************************************************************)
(* Device inventory resolution of nac-test-pyats-common.                   *)
(*                                                                         *)
(* BaseDeviceResolver.get_resolved_inventory is a template method: it      *)
(* walks the fragments returned by navigate_to_devices, validates and      *)
(* builds one record per fragment, turns KeyError / ValueError into skip   *)
(* entries, and finally injects the credentials read from the process      *)
(* environment.  The adapters are the resolver classes of the repository:  *)
(* MockDeviceResolver (the test suite's concrete resolver), a subclass     *)
(* that overrides build_device_dict, CatalystCenterDeviceResolver and      *)
(* SDWANDeviceResolver.                                                    *)
(*                                                                         *)
(* Python values are tagged records, dicts are functions on their keys,    *)
(* a call's outcome is either Ok(value) or Raise(exception, message), and  *)
(* a message is the sequence of the pieces its f-string concatenates.      *)
(***************************************************************************)
EXTENDS Integers, Sequences, FiniteSets, TLC

VARIABLES
    resolver,         \* class of the resolver instance, "none" before construction
    data_model,       \* self.data_model
    skipped_devices,  \* self.skipped_devices
    environ,          \* os.environ, restricted to the credential variables
    result,           \* outcome of the call that has just completed
    probe,            \* outcome of a direct call of one adapter method
    held              \* the lists a caller kept from an earlier call

vars == <<resolver, data_model, skipped_devices, environ, result, probe, held>>

(***************************************************************************)
(* Bounds                                                                  *)
(***************************************************************************)
MaxDevices == 2      \* longest device list of a data model
MaxIpLen == 3        \* longest raw IP text handed to extract_host_ip
MaxStateLen == 4     \* longest state text handed to validate_device_data

(***************************************************************************)
(* Python values                                                           *)
(*                                                                         *)
(* A str is Str(val); val is a TLA+ string where only its identity and     *)
(* emptiness matter (names, ids) and a tuple of characters where the code  *)
(* looks inside it (state, IP text).                                       *)
(***************************************************************************)
NoneV == [type |-> "NoneType"]
Str(s) == [type |-> "str", val |-> s]
IntV(n) == [type |-> "int", val |-> n]

IsStr(v) == v.type = "str"

\* bool(v): None, "" and 0 are false
Truthy(v) ==
    CASE v.type = "str" -> Len(v.val) > 0
      [] v.type = "int" -> v.val # 0
      [] OTHER -> FALSE

RECURSIVE ToStr(_)
\* the characters of a text as one string
ToStr(t) == IF Len(t) = 0 THEN "" ELSE Head(t) \o ToStr(Tail(t))

\* repr(v), as the pieces of the text
Repr(v) ==
    CASE v.type = "str" -> IF Len(v.val) = 0 THEN <<"''">> ELSE <<"'", v.val, "'">>
      [] v.type = "int" -> <<ToString(v.val)>>
      [] OTHER -> <<"None">>

\* str(v) of a value whose text the code inspects
PyStr(v) ==
    CASE v.type = "str" -> v.val
      [] v.type = "int" -> <<ToString(v.val)>>
      [] OTHER -> <<"N", "o", "n", "e">>

\* str(v) of a value whose text the code only passes on
StrOf(v) ==
    CASE v.type = "str" -> v
      [] v.type = "int" -> Str(ToString(v.val))
      [] OTHER -> Str("None")

Ok(v) == [ok |-> TRUE, val |-> v, exc |-> "", msg |-> <<>>]
Raise(e, m) == [ok |-> FALSE, val |-> NoneV, exc |-> e, msg |-> m]

EmptyDict == [k \in {} |-> NoneV]

\* a dict, as opposed to a null item
IsMapping(d) == d # NoneV

\* d[k]
Index(d, k) ==
    IF ~IsMapping(d)
    THEN Raise("TypeError", <<"'NoneType' object is not subscriptable">>)
    ELSE IF k \in DOMAIN d THEN Ok(d[k]) ELSE Raise("KeyError", <<"'", k, "'">>)

\* d.get(k, default) on a dict
Get(d, k, default) == IF k \in DOMAIN d THEN d[k] ELSE default

Contains(msg, piece) == \E i \in 1..Len(msg) : msg[i] = piece

RECURSIVE Join(_, _)
\* sep.join(items)
Join(sep, items) ==
    IF Len(items) = 0 THEN <<>>
    ELSE IF Len(items) = 1 THEN <<items[1]>>
    ELSE <<items[1], sep>> \o Join(sep, Tail(items))

LowerCase == <<"i", "n", "t", "p">>
UpperCase == <<"I", "N", "T", "P">>

\* str.upper() on one character
UpperChar(c) ==
    IF \E i \in 1..Len(LowerCase) : LowerCase[i] = c
    THEN UpperCase[CHOOSE i \in 1..Len(LowerCase) : LowerCase[i] = c]
    ELSE c

\* str.upper()
Upper(t) == [i \in 1..Len(t) |-> UpperChar(t[i])]

RECURSIVE Split0(_)
\* text.split("/")[0]
Split0(t) ==
    IF Len(t) = 0 THEN <<>>
    ELSE IF Head(t) = "/" THEN <<>>
    ELSE <<Head(t)>> \o Split0(Tail(t))

\* "/" in text
HasSlash(t) == \E i \in 1..Len(t) : t[i] = "/"

(***************************************************************************)
(* Resolver classes                                                        *)
(*                                                                         *)
(* OverrideResolver stands for a MockDeviceResolver subclass that supplies *)
(* both optional hooks: validate_device_data as in the example of the base *)
(* class docstring, and a build_device_dict that does not go through the   *)
(* base helper.  ValidatingResolver stands for one that supplies only the  *)
(* validation hook and keeps the default build_device_dict.                *)
(***************************************************************************)
Classes ==
    {"MockDeviceResolver", "OverrideResolver", "IncompleteResolver",
     "CatalystCenterDeviceResolver", "SDWANDeviceResolver"}

\* the abstract methods of BaseDeviceResolver
AbstractMethods ==
    {"get_architecture_name", "get_schema_root_key", "navigate_to_devices",
     "extract_device_id", "extract_hostname", "extract_host_ip",
     "extract_os_type", "get_credential_env_vars"}

\* the methods the class body, or a concrete parent, defines
DefinedMethods(cls) ==
    CASE cls = "CatalystCenterDeviceResolver" ->
            {"get_architecture_name", "get_schema_root_key",
             "navigate_to_devices", "validate_device_data",
             "extract_hostname", "extract_host_ip", "extract_os_type",
             "get_credential_env_vars"}
      [] cls = "SDWANDeviceResolver" ->
            {"get_architecture_name", "get_schema_root_key",
             "navigate_to_devices", "extract_device_id", "extract_hostname",
             "extract_host_ip", "extract_os_platform_type",
             "build_device_dict", "get_credential_env_vars"}
      [] cls = "OverrideResolver" ->
            AbstractMethods \cup {"validate_device_data", "build_device_dict"}
      [] cls = "ValidatingResolver" ->
            AbstractMethods \cup {"validate_device_data"}
      [] cls = "IncompleteResolver" ->
            {"get_architecture_name", "get_schema_root_key"}
      [] OTHER -> AbstractMethods

\* ABCMeta: a class with a leftover abstract method cannot be instantiated
CanInstantiate(cls) == AbstractMethods \subseteq DefinedMethods(cls)

get_architecture_name(self) ==
    CASE self.cls = "CatalystCenterDeviceResolver" -> "catalyst_center"
      [] self.cls = "SDWANDeviceResolver" -> "sdwan"
      [] self.cls = "IncompleteResolver" -> "incomplete"
      [] OTHER -> "mock_arch"

get_credential_env_vars(self) ==
    IF self.cls \in {"CatalystCenterDeviceResolver", "SDWANDeviceResolver"}
    THEN <<"IOSXE_USERNAME", "IOSXE_PASSWORD">>
    ELSE <<"MOCK_USERNAME", "MOCK_PASSWORD">>

(***************************************************************************)
(* MockDeviceResolver                                                      *)
(***************************************************************************)
\* self.data_model.get("mock", {}).get("devices", [])
Mock_navigate_to_devices(self) ==
    Get(Get(self.data_model, "mock", EmptyDict), "devices", <<>>)

Mock_extract_device_id(self, d) == Index(d, "device_id")
Mock_extract_hostname(self, d) == Index(d, "hostname")
Mock_extract_host_ip(self, d) == Index(d, "host")
Mock_extract_os_type(self, d) == Index(d, "os")

(***************************************************************************)
(* CatalystCenterDeviceResolver                                            *)
(***************************************************************************)
\* catalyst_center.inventory.devices[]
CatalystCenter_navigate_to_devices(self) ==
    LET cc_data == Get(self.data_model, "catalyst_center", EmptyDict)
        inventory == Get(cc_data, "inventory", EmptyDict)
    IN  Get(inventory, "devices", <<>>)

INIT == <<"I", "N", "I", "T">>
PNP == <<"P", "N", "P">>

\* device_data.get("state", "").upper(); AttributeError when the value has
\* no upper()
UpperState(d) ==
    LET raw == Get(d, "state", Str(<<>>))
    IN  IF IsStr(raw) THEN Ok(Upper(raw.val))
        ELSE Raise("AttributeError",
                 <<"'", raw.type, "' object has no attribute 'upper'">>)

CatalystCenter_validate_device_data(self, d) ==
    LET state == UpperState(d)
    IN  IF ~state.ok THEN state
        ELSE IF state.val \in {INIT, PNP}
        THEN Raise("ValueError",
                 <<"Device has ", "unsupported state '", ToStr(state.val), "'",
                   " (devices in INIT or PNP state are ",
                   "not fully provisioned", ")">>)
        ELSE Ok(NoneV)

CatalystCenter_extract_hostname(self, d) ==
    LET name == Get(d, "name", NoneV)
    IN  IF ~Truthy(name) THEN Raise("ValueError", <<"Device ", "missing 'name' field">>)
        ELSE Ok(StrOf(name))

\* extract_host_ip without the CIDR stripping
CatalystCenter_extract_host_ip_no_strip(self, d) ==
    LET device_ip == Get(d, "device_ip", NoneV)
    IN  IF ~Truthy(device_ip)
        THEN Raise("ValueError",
                 <<"Device ", "missing 'device_ip' field", ". ",
                   "Ensure device_ip is configured in the inventory.">>)
        ELSE Ok(Str(PyStr(device_ip)))

CatalystCenter_extract_host_ip(self, d) ==
    LET device_ip == Get(d, "device_ip", NoneV)
        ip_value == PyStr(device_ip)
    IN  IF ~Truthy(device_ip)
        THEN Raise("ValueError",
                 <<"Device ", "missing 'device_ip' field", ". ",
                   "Ensure device_ip is configured in the inventory.">>)
        ELSE IF HasSlash(ip_value) THEN Ok(Str(Split0(ip_value)))
        ELSE Ok(Str(ip_value))

CatalystCenter_extract_os_type(self, d) == Ok(Str("iosxe"))

(***************************************************************************)
(* SDWANDeviceResolver                                                     *)
(***************************************************************************)
RECURSIVE SDWAN_extend_routers_later_first(_, _)
\* SDWAN_extend_routers that puts the routers of the later sites first
SDWAN_extend_routers_later_first(sites, i) ==
    IF i > Len(sites) THEN <<>>
    ELSE SDWAN_extend_routers_later_first(sites, i + 1) \o Get(sites[i], "routers", <<>>)

RECURSIVE SDWAN_extend_routers(_, _)
\* the for loop over the sites from site i on: devices.extend(routers)
SDWAN_extend_routers(sites, i) ==
    IF i > Len(sites) THEN <<>>
    ELSE Get(sites[i], "routers", <<>>) \o SDWAN_extend_routers(sites, i + 1)

\* sdwan.sites[].routers[]
SDWAN_navigate_to_devices(self) ==
    LET sdwan_data == Get(self.data_model, "sdwan", EmptyDict)
    IN  SDWAN_extend_routers(Get(sdwan_data, "sites", <<>>), 1)

SDWAN_extract_device_id(self, d) ==
    LET chassis_id == Get(d, "chassis_id", NoneV)
    IN  IF ~Truthy(chassis_id)
        THEN Raise("ValueError", <<"Router ", "missing 'chassis_id' field">>)
        ELSE Ok(StrOf(chassis_id))

SDWAN_extract_hostname(self, d) ==
    LET device_vars == Get(d, "device_variables", EmptyDict)
    IN  IF "system_hostname" \in DOMAIN device_vars
        THEN Ok(StrOf(device_vars["system_hostname"]))
        ELSE Ok(StrOf(Get(d, "chassis_id", Str("unknown"))))

\* extract_host_ip with the cascade upside down: the global name first
SDWAN_extract_host_ip_global_first(self, d) ==
    LET device_vars == Get(d, "device_variables", EmptyDict)
        global_var == Get(Get(self.data_model, "sdwan", EmptyDict),
                          "management_ip_variable", NoneV)
        ip_var == IF Truthy(global_var) THEN global_var
                  ELSE Get(d, "management_ip_variable", NoneV)
    IN  IF ~Truthy(ip_var)
        THEN Raise("ValueError",
                 <<"management_ip_variable not configured", ". ",
                   "Set it at router level or sdwan level in sites.nac.yaml.">>)
        ELSE IF ip_var.val \notin DOMAIN device_vars
        THEN Raise("ValueError",
                 <<"management_ip_variable '", ip_var.val, "' ",
                   "not found in device_variables", ".">>)
        ELSE LET ip_value == PyStr(device_vars[ip_var.val])
             IN  IF HasSlash(ip_value) THEN Ok(Str(Split0(ip_value)))
                 ELSE Ok(Str(ip_value))

SDWAN_extract_host_ip(self, d) ==
    LET device_vars == Get(d, "device_variables", EmptyDict)
        router_var == Get(d, "management_ip_variable", NoneV)
        ip_var == IF Truthy(router_var) THEN router_var
                  ELSE Get(Get(self.data_model, "sdwan", EmptyDict),
                           "management_ip_variable", NoneV)
    IN  IF ~Truthy(ip_var)
        THEN Raise("ValueError",
                 <<"management_ip_variable not configured", ". ",
                   "Set it at router level or sdwan level in sites.nac.yaml.">>)
        ELSE IF ip_var.val \notin DOMAIN device_vars
        THEN Raise("ValueError",
                 <<"management_ip_variable '", ip_var.val, "' ",
                   "not found in device_variables", ".">>)
        ELSE LET ip_value == PyStr(device_vars[ip_var.val])
             IN  IF HasSlash(ip_value) THEN Ok(Str(Split0(ip_value)))
                 ELSE Ok(Str(ip_value))

(***************************************************************************)
(* OverrideResolver: the two optional hooks                                *)
(***************************************************************************)
\* the example hook of the validate_device_data docstring
Override_validate_device_data(self, d) ==
    LET state == UpperState(d)
    IN  IF ~IsMapping(d)
        THEN Raise("AttributeError", <<"'NoneType' object has no attribute 'get'">>)
        ELSE IF ~state.ok THEN state
        ELSE IF state.val \in {INIT, PNP}
        THEN Raise("ValueError",
                 <<"Device has ", "unsupported state '", ToStr(state.val), "'">>)
        ELSE Ok(NoneV)

\* a build step that hands back a copy of the fragment's own fields without
\* the base helper's checks
Override_build_device_dict(self, d) == Ok(d)

(***************************************************************************)
(* Method dispatch                                                         *)
(***************************************************************************)
\* what calling an abstract method body ("...") gives
AbstractBody == Ok(NoneV)

navigate_to_devices(self) ==
    CASE self.cls = "SDWANDeviceResolver" -> SDWAN_navigate_to_devices(self)
      [] self.cls = "CatalystCenterDeviceResolver" -> CatalystCenter_navigate_to_devices(self)
      [] OTHER -> Mock_navigate_to_devices(self)

extract_device_id(self, d) ==
    CASE self.cls = "SDWANDeviceResolver" -> SDWAN_extract_device_id(self, d)
      [] self.cls = "CatalystCenterDeviceResolver" -> AbstractBody
      [] self.cls = "IncompleteResolver" -> AbstractBody
      [] OTHER -> Mock_extract_device_id(self, d)

extract_hostname(self, d) ==
    CASE self.cls = "SDWANDeviceResolver" -> SDWAN_extract_hostname(self, d)
      [] self.cls = "CatalystCenterDeviceResolver" -> CatalystCenter_extract_hostname(self, d)
      [] self.cls = "IncompleteResolver" -> AbstractBody
      [] OTHER -> Mock_extract_hostname(self, d)

extract_host_ip(self, d) ==
    CASE self.cls = "SDWANDeviceResolver" -> SDWAN_extract_host_ip(self, d)
      [] self.cls = "CatalystCenterDeviceResolver" -> CatalystCenter_extract_host_ip(self, d)
      [] self.cls = "IncompleteResolver" -> AbstractBody
      [] OTHER -> Mock_extract_host_ip(self, d)

extract_os_type(self, d) ==
    CASE self.cls = "SDWANDeviceResolver" -> AbstractBody
      [] self.cls = "CatalystCenterDeviceResolver" -> CatalystCenter_extract_os_type(self, d)
      [] self.cls = "IncompleteResolver" -> AbstractBody
      [] OTHER -> Mock_extract_os_type(self, d)

\* the base hook does nothing
validate_device_data(self, d) ==
    CASE self.cls = "CatalystCenterDeviceResolver" -> CatalystCenter_validate_device_data(self, d)
      [] self.cls \in {"OverrideResolver", "ValidatingResolver"} ->
            Override_validate_device_data(self, d)
      [] OTHER -> Ok(NoneV)

(***************************************************************************)
(* BaseDeviceResolver                                                      *)
(***************************************************************************)
\* Base_build_device_dict with the device ID checked before the other three
Base_build_device_dict_device_id_first(self, d) ==
    LET hostname == extract_hostname(self, d)
        host == extract_host_ip(self, d)
        os_type == extract_os_type(self, d)
        device_id == extract_device_id(self, d)
    IN  IF ~hostname.ok THEN hostname
        ELSE IF ~host.ok THEN host
        ELSE IF ~os_type.ok THEN os_type
        ELSE IF ~device_id.ok THEN device_id
        ELSE IF ~IsStr(device_id.val) \/ ~Truthy(device_id.val)
             THEN Raise("ValueError", <<"Invalid device ID: ">> \o Repr(device_id.val))
        ELSE IF ~IsStr(hostname.val) \/ ~Truthy(hostname.val)
             THEN Raise("ValueError", <<"Invalid hostname: ">> \o Repr(hostname.val))
        ELSE IF ~IsStr(host.val) \/ ~Truthy(host.val)
             THEN Raise("ValueError", <<"Invalid host IP: ">> \o Repr(host.val))
        ELSE IF ~IsStr(os_type.val) \/ ~Truthy(os_type.val)
             THEN Raise("ValueError", <<"Invalid OS type: ">> \o Repr(os_type.val))
        ELSE Ok([hostname |-> hostname.val, host |-> host.val,
                 os |-> os_type.val, device_id |-> device_id.val])

\* the four extractions in source order, then the non-empty-string checks
Base_build_device_dict(self, d) ==
    LET hostname == extract_hostname(self, d)
        host == extract_host_ip(self, d)
        os_type == extract_os_type(self, d)
        device_id == extract_device_id(self, d)
    IN  IF ~hostname.ok THEN hostname
        ELSE IF ~host.ok THEN host
        ELSE IF ~os_type.ok THEN os_type
        ELSE IF ~device_id.ok THEN device_id
        ELSE IF ~IsStr(hostname.val) \/ ~Truthy(hostname.val)
             THEN Raise("ValueError", <<"Invalid hostname: ">> \o Repr(hostname.val))
        ELSE IF ~IsStr(host.val) \/ ~Truthy(host.val)
             THEN Raise("ValueError", <<"Invalid host IP: ">> \o Repr(host.val))
        ELSE IF ~IsStr(os_type.val) \/ ~Truthy(os_type.val)
             THEN Raise("ValueError", <<"Invalid OS type: ">> \o Repr(os_type.val))
        ELSE IF ~IsStr(device_id.val) \/ ~Truthy(device_id.val)
             THEN Raise("ValueError", <<"Invalid device ID: ">> \o Repr(device_id.val))
        ELSE Ok([hostname |-> hostname.val, host |-> host.val,
                 os |-> os_type.val, device_id |-> device_id.val])

\* SDWANDeviceResolver.build_device_dict: the base record plus type
SDWAN_build_device_dict(self, d) ==
    LET base == Base_build_device_dict(self, d)
    IN  IF ~base.ok THEN base ELSE Ok(("type" :> Str("router")) @@ base.val)

build_device_dict(self, d) ==
    CASE self.cls = "OverrideResolver" -> Override_build_device_dict(self, d)
      [] self.cls = "SDWANDeviceResolver" -> SDWAN_build_device_dict(self, d)
      [] OTHER -> Base_build_device_dict(self, d)

\* try_block with the build step looked at before the hook
try_block_build_first(v, b) ==
    IF ~b.ok THEN b
        ELSE IF ~v.ok THEN v
        ELSE IF ~Truthy(Get(b.val, "hostname", NoneV))
             THEN Raise("ValueError", <<"hostname", " is empty or missing">>)
        ELSE IF ~Truthy(Get(b.val, "host", NoneV))
             THEN Raise("ValueError", <<"host", " (IP address) is empty or missing">>)
        ELSE IF ~Truthy(Get(b.val, "os", NoneV))
             THEN Raise("ValueError", <<"os", " type is empty or missing">>)
        ELSE IF ~Truthy(Get(b.val, "device_id", NoneV))
             THEN Raise("ValueError", <<"device_id", " is empty or missing">>)
        ELSE b

\* try_block without the checks of the built record
try_block_unchecked(v, b) == IF ~v.ok THEN v ELSE b

\* the try block once the hook gave v and the build step gave b: the four
\* checks of the built record
try_block(v, b) ==
    IF ~v.ok THEN v
        ELSE IF ~b.ok THEN b
        ELSE IF ~Truthy(Get(b.val, "hostname", NoneV))
             THEN Raise("ValueError", <<"hostname", " is empty or missing">>)
        ELSE IF ~Truthy(Get(b.val, "host", NoneV))
             THEN Raise("ValueError", <<"host", " (IP address) is empty or missing">>)
        ELSE IF ~Truthy(Get(b.val, "os", NoneV))
             THEN Raise("ValueError", <<"os", " type is empty or missing">>)
        ELSE IF ~Truthy(Get(b.val, "device_id", NoneV))
             THEN Raise("ValueError", <<"device_id", " is empty or missing">>)
        ELSE b

\* the body of the try block for one fragment
resolve_device(self, d) ==
    try_block(validate_device_data(self, d), build_device_dict(self, d))

\* except (KeyError, ValueError)
Caught == {"KeyError", "ValueError"}

_safe_extract_device_id(self, d) ==
    LET r == extract_device_id(self, d)
    IN  IF r.ok THEN r
        ELSE IF r.exc \in Caught THEN Ok(Str("<unknown>"))
        ELSE r

\* append_or_skip whose except clause records nothing
append_or_skip_silent(r, id, acc) ==
    IF r.ok THEN [acc EXCEPT !.resolved = Append(@, r.val)]
    ELSE IF r.exc \notin Caught THEN [acc EXCEPT !.raised = r]
    ELSE IF ~id.ok THEN [acc EXCEPT !.raised = id]
    ELSE acc

\* append_or_skip that puts the new record, or the new skip record, in front
append_or_skip_in_front(r, id, acc) ==
    IF r.ok THEN [acc EXCEPT !.resolved = <<r.val>> \o @]
    ELSE IF r.exc \notin Caught THEN [acc EXCEPT !.raised = r]
    ELSE IF ~id.ok THEN [acc EXCEPT !.raised = id]
    ELSE [acc EXCEPT !.skipped =
             <<[device_id |-> id.val, reason |-> r.msg]>> \o @]

\* what one iteration leaves behind when the try block gave r: the record is
\* appended, or the except clause appends a skip record with the best-effort
\* id, or the exception leaves the loop
append_or_skip(r, id, acc) ==
    IF r.ok THEN [acc EXCEPT !.resolved = Append(@, r.val)]
    ELSE IF r.exc \notin Caught THEN [acc EXCEPT !.raised = r]
    ELSE IF ~id.ok THEN [acc EXCEPT !.raised = id]
    ELSE [acc EXCEPT !.skipped =
             Append(@, [device_id |-> id.val, reason |-> r.msg])]

\* loop_step without the except clause: a failing fragment ends the loop
loop_step_propagate(self, d, acc) ==
    LET r == resolve_device(self, d)
    IN  IF r.ok THEN [acc EXCEPT !.resolved = Append(@, r.val)]
        ELSE [acc EXCEPT !.raised = r]

\* one iteration of the for loop over all_devices
loop_step(self, d, acc) ==
    append_or_skip(resolve_device(self, d), _safe_extract_device_id(self, d), acc)

RECURSIVE resolve_loop(_, _, _, _)
\* the for loop: acc holds resolved_devices, self.skipped_devices and the
\* exception that left the loop, if any
resolve_loop(self, all_devices, i, acc) ==
    IF i > Len(all_devices) \/ ~acc.raised.ok THEN acc
    ELSE resolve_loop(self, all_devices, i + 1, loop_step(self, all_devices[i], acc))

\* os.environ.get(name)
environ_get(env, name) == Get(env, name, NoneV)

\* missing_vars with the two checks in the other order
missing_vars_password_first(self, env) ==
    LET username_var == get_credential_env_vars(self)[1]
        password_var == get_credential_env_vars(self)[2]
    IN  (IF ~Truthy(environ_get(env, password_var)) THEN <<password_var>> ELSE <<>>)
        \o (IF ~Truthy(environ_get(env, username_var)) THEN <<username_var>> ELSE <<>>)

\* the missing_vars list of _inject_credentials
missing_vars(self, env) ==
    LET username_var == get_credential_env_vars(self)[1]
        password_var == get_credential_env_vars(self)[2]
    IN  (IF ~Truthy(environ_get(env, username_var)) THEN <<username_var>> ELSE <<>>)
        \o (IF ~Truthy(environ_get(env, password_var)) THEN <<password_var>> ELSE <<>>)

\* _inject_credentials that complains only when there is a device to update
_inject_credentials_nonempty(self, env, devices) ==
    LET username == environ_get(env, get_credential_env_vars(self)[1])
        password == environ_get(env, get_credential_env_vars(self)[2])
        missing == missing_vars(self, env)
    IN  IF Len(missing) > 0 /\ Len(devices) > 0
        THEN Raise("ValueError",
                 <<"Missing required credential environment variables: ">>
                 \o Join(", ", missing)
                 \o <<". These are required for ", get_architecture_name(self),
                      " D2D testing.">>)
        ELSE Ok([i \in 1..Len(devices) |->
                    ("username" :> username) @@ ("password" :> password)
                    @@ devices[i]])

\* _inject_credentials that writes the two values into each other's field
_inject_credentials_swapped(self, env, devices) ==
    LET username == environ_get(env, get_credential_env_vars(self)[1])
        password == environ_get(env, get_credential_env_vars(self)[2])
        missing == missing_vars(self, env)
    IN  IF Len(missing) > 0
        THEN Raise("ValueError",
                 <<"Missing required credential environment variables: ">>
                 \o Join(", ", missing)
                 \o <<". These are required for ", get_architecture_name(self),
                      " D2D testing.">>)
        ELSE Ok([i \in 1..Len(devices) |->
                    ("username" :> password) @@ ("password" :> username)
                    @@ devices[i]])

\* Ok(the devices, updated in place) or the fatal ValueError
_inject_credentials(self, env, devices) ==
    LET username == environ_get(env, get_credential_env_vars(self)[1])
        password == environ_get(env, get_credential_env_vars(self)[2])
        missing == missing_vars(self, env)
    IN  IF Len(missing) > 0
        THEN Raise("ValueError",
                 <<"Missing required credential environment variables: ">>
                 \o Join(", ", missing)
                 \o <<". These are required for ", get_architecture_name(self),
                      " D2D testing.">>)
        ELSE Ok([i \in 1..Len(devices) |->
                    ("username" :> username) @@ ("password" :> password)
                    @@ devices[i]])

\* reset_skipped without the reset: the loop appends to the old list
reset_skipped_keep(self) == self.skipped_devices

\* the list the loop starts to fill: self.skipped_devices = []
reset_skipped(self) == <<>>

\* build_device_dict that writes the fields into device_data and returns it
returns_new_dict_in_place(self) == FALSE

\* whether the record build_device_dict returns is a dict of its own: the
\* default step returns a dict literal, the SD-WAN override extends that
\* dict, and the override of OverrideResolver copies the fragment
returns_new_dict(self) == TRUE

\* the reset as self.skipped_devices.clear(): the list object is kept
rebinds_skipped_clear(self) == FALSE

\* whether the reset binds self.skipped_devices to a list of its own
rebinds_skipped(self) == TRUE

\* what dict d holds once the call has ended with outcome, d being one of
\* the fragments: only a record that is the fragment itself carries the two
\* assignments of _inject_credentials into it
object_after(self, env, outcome, d) ==
    IF returns_new_dict(self) \/ ~outcome.ok \/ ~resolve_device(self, d).ok
    THEN d
    ELSE _inject_credentials(self, env, <<resolve_device(self, d).val @@ d>>).val[1]

\* self.data_model once the call has ended
data_model_after(self, env, outcome) ==
    IF "mock" \in DOMAIN self.data_model /\ "devices" \in DOMAIN self.data_model.mock
    THEN [self.data_model EXCEPT !.mock.devices =
             [i \in 1..Len(@) |-> object_after(self, env, outcome, @[i])]]
    ELSE self.data_model

\* what the lists a caller kept from an earlier call hold once a later call
\* has ended: the kept skip list follows self.skipped_devices only while it
\* is the same list object, a kept record changes only if it is a fragment
held_after(self, env, outcome, now_skipped, h) ==
    IF ~h.kept THEN h
    ELSE [h EXCEPT
            !.resolved_now =
                [i \in 1..Len(@) |->
                    IF \E j \in 1..Len(navigate_to_devices(self)) :
                          navigate_to_devices(self)[j] = @[i]
                    THEN object_after(self, env, outcome, @[i])
                    ELSE @[i]],
            !.skipped_now = IF rebinds_skipped(self) THEN @ ELSE now_skipped]

\* after_loop that reads the credentials only when a device was resolved
after_loop_when_resolved(self, env, loop) ==
    [skipped_devices |-> loop.skipped,
     outcome |-> IF ~loop.raised.ok THEN loop.raised
                 ELSE IF Len(loop.resolved) = 0 THEN Ok(<<>>)
                 ELSE _inject_credentials(self, env, loop.resolved)]

\* what follows the for loop: the exception that left it, or the credential
\* injection into resolved_devices and the return
after_loop(self, env, loop) ==
    [skipped_devices |-> loop.skipped,
     outcome |-> IF ~loop.raised.ok THEN loop.raised
                 ELSE _inject_credentials(self, env, loop.resolved)]

\* get_resolved_inventory with the credential check moved in front of the loop
get_resolved_inventory_check_first(self, env) ==
    LET check == _inject_credentials(self, env, <<>>)
    IN  IF ~check.ok
        THEN [skipped_devices |-> reset_skipped(self), outcome |-> check]
        ELSE after_loop(self, env,
                 resolve_loop(self, navigate_to_devices(self), 1,
                     [resolved |-> <<>>, skipped |-> reset_skipped(self),
                      raised |-> Ok(NoneV)]))

\* get_resolved_inventory without the reset: the loop appends to the list of
\* the earlier call
get_resolved_inventory_no_reset(self, env) ==
    after_loop(self, env,
        resolve_loop(self, navigate_to_devices(self), 1,
            [resolved |-> <<>>, skipped |-> self.skipped_devices,
             raised |-> Ok(NoneV)]))

\* the whole method: the new self.skipped_devices and what the caller gets
get_resolved_inventory(self, env) ==
    after_loop(self, env,
        resolve_loop(self, navigate_to_devices(self), 1,
            [resolved |-> <<>>, skipped |-> reset_skipped(self),
             raised |-> Ok(NoneV)]))

(***************************************************************************)
(* Inputs                                                                  *)
(***************************************************************************)
dev1 == [device_id |-> Str("device1"), hostname |-> Str("router1"),
         host |-> Str("10.1.1.1"), os |-> Str("iosxe")]
\* complete, with a state the example hook rejects
devInit == [device_id |-> Str("device2"), hostname |-> Str("router2"),
            host |-> Str("10.1.1.2"), os |-> Str("nxos"),
            state |-> Str(<<"i", "n", "i", "t">>)]
\* no device_id key
noDeviceId == [hostname |-> Str("router3"), host |-> Str("10.1.1.3"),
               os |-> Str("iosxr")]
\* a value that is not a string
intOs == [device_id |-> Str("device4"), hostname |-> Str("router4"),
          host |-> Str("10.1.1.4"), os |-> IntV(7)]

\* what a devices list can hold; NoneV is a null list item
Fragments == {dev1, devInit, noDeviceId, intOs, NoneV}

RECURSIVE SeqsUpTo(_, _)
SeqsUpTo(S, n) ==
    IF n = 0 THEN {<<>>}
    ELSE LET shorter == SeqsUpTo(S, n - 1)
         IN  shorter \cup {Append(s, x) : s \in {t \in shorter : Len(t) = n - 1}, x \in S}

DataModels ==
    {EmptyDict, [mock |-> EmptyDict]}
    \cup {[mock |-> [devices |-> ds]] : ds \in SeqsUpTo(Fragments, MaxDevices)}

UsernameValues == {NoneV, Str(""), Str("test_user"), Str("admin")}
PasswordValues == {NoneV, Str(""), Str("test_pass")}

Environments ==
    {[MOCK_USERNAME |-> u, MOCK_PASSWORD |-> p] :
        u \in UsernameValues, p \in PasswordValues}

NoResult == [kind |-> "none", ok |-> TRUE, val |-> NoneV, exc |-> "", msg |-> <<>>,
             entry_skipped |-> <<>>, again |-> FALSE]
NoProbe == [fn |-> "none"]
\* nothing kept; otherwise the two lists as they were when the caller took
\* them and as they are now
NoHeld == [kept |-> FALSE, resolved |-> <<>>, skipped |-> <<>>,
           resolved_now |-> <<>>, skipped_now |-> <<>>]

(***************************************************************************)
(* State machine                                                           *)
(***************************************************************************)
Self == [cls |-> resolver, data_model |-> data_model,
         skipped_devices |-> skipped_devices]

Init ==
    /\ resolver = "none"
    /\ data_model = EmptyDict
    /\ skipped_devices = <<>>
    /\ environ \in Environments
    /\ result = NoResult
    /\ probe = NoProbe
    /\ held = NoHeld

\* cls(data_model): BaseDeviceResolver.__init__, refused by ABCMeta when the
\* class leaves an abstract method undefined
Construct(cls, dm) ==
    /\ resolver = "none"
    /\ IF CanInstantiate(cls)
       THEN /\ resolver' = cls
            /\ data_model' = dm
            /\ result' = NoResult
       ELSE /\ resolver' = "none"
            /\ data_model' = EmptyDict
            /\ result' = [NoResult EXCEPT !.kind = "construct", !.ok = FALSE,
                              !.exc = "TypeError",
                              !.msg = <<"Can't instantiate abstract class ", cls>>]
    /\ skipped_devices' = <<>>
    /\ UNCHANGED <<environ, probe, held>>

\* resolver.data_model = dm: the caller replaces the document once a call on
\* the document given to the constructor, or set before, has completed
SetDataModel(dm) ==
    /\ resolver # "none"
    /\ result.kind \in {"return", "raise"}
    /\ dm # data_model
    /\ data_model' = dm
    /\ result' = NoResult
    /\ UNCHANGED <<resolver, skipped_devices, environ, probe, held>>

\* the surrounding process sets or deletes a credential variable
SetEnviron(env) ==
    /\ env # environ
    /\ environ' = env
    /\ result' = NoResult
    /\ UNCHANGED <<resolver, data_model, skipped_devices, probe, held>>

\* what the caller sees of a completed call: the returned list or the
\* exception, the skip list the resolver held when the call began, and whether
\* the call came right after another one on the same document and environment
Completed(outcome, entry, again) ==
    [kind |-> IF outcome.ok THEN "return" ELSE "raise",
     ok |-> outcome.ok,
     val |-> outcome.val,
     exc |-> outcome.exc,
     msg |-> outcome.msg,
     entry_skipped |-> entry,
     again |-> again]

\* what a call leaves behind: the new skip list, the outcome the caller
\* sees, the document and the lists the caller kept
Leaves(call) ==
    /\ skipped_devices' = call.skipped_devices
    /\ result' = Completed(call.outcome, skipped_devices,
                            result.kind \in {"return", "raise"})
    /\ data_model' = data_model_after(Self, environ, call.outcome)
    /\ held' = held_after(Self, environ, call.outcome, call.skipped_devices, held)

\* resolver.get_resolved_inventory()
Resolve ==
    /\ resolver # "none"
    /\ Leaves(get_resolved_inventory(Self, environ))
    /\ UNCHANGED <<resolver, environ, probe>>

Next ==
    \/ \E cls \in Classes : \E dm \in DataModels : Construct(cls, dm)
    \/ \E dm \in DataModels : SetDataModel(dm)
    \/ \E env \in Environments : SetEnviron(env)
    \/ Resolve

Spec == Init /\ [][Next]_vars

TypeOK ==
    /\ resolver \in Classes \cup {"none"}
    /\ data_model \in DataModels
    /\ environ \in Environments
    /\ result.kind \in {"none", "construct", "return", "raise"}

(***************************************************************************)
(* Direct calls of the adapter methods of the two shipped resolvers: each   *)
(* behaviour makes one call on one input.                                  *)
(***************************************************************************)
IpChars == {"1", ".", "/"}
IpTexts == SeqsUpTo(IpChars, MaxIpLen)

StateChars == {"i", "I", "n", "N", "t", "T", "p", "P"}
StateTexts == SeqsUpTo(StateChars, MaxStateLen)

CatcDevice == [name |-> Str("P3-BN1")]

\* Catalyst Center devices that differ in the state field
CatcStateDevices ==
    {CatcDevice}
    \cup {("state" :> v) @@ CatcDevice :
            v \in {Str(t) : t \in StateTexts} \cup {NoneV, IntV(1)}}

\* Catalyst Center devices that differ in the device_ip field
CatcIpDevices ==
    {CatcDevice}
    \cup {("device_ip" :> v) @@ CatcDevice :
            v \in {Str(t) : t \in IpTexts} \cup {NoneV}}

Router == [chassis_id |-> Str("abc123")]

SdwanDeviceVariables ==
    {[vpn511_ip |-> NoneV]}
    \cup {[vpn511_ip |-> Str(t)] : t \in IpTexts}
    \cup {[custom_mgmt_ip |-> Str(t)] : t \in IpTexts}
    \cup {[vpn511_ip |-> Str(t), custom_mgmt_ip |-> Str(<<"1">>)] : t \in IpTexts}
    \cup {[vpn511_ip |-> Str(<<"1">>), custom_mgmt_ip |-> Str(t)] : t \in IpTexts}

RouterVariableSettings ==
    {Router}
    \cup {("management_ip_variable" :> v) @@ Router :
            v \in {Str(""), Str("custom_mgmt_ip")}}

SdwanRouters ==
    RouterVariableSettings
    \cup {("device_variables" :> dv) @@ r :
            dv \in SdwanDeviceVariables, r \in RouterVariableSettings}

SdwanDataModels ==
    {EmptyDict, [sdwan |-> EmptyDict],
     [sdwan |-> [management_ip_variable |-> Str("vpn511_ip")]]}

\* Catalyst Center devices that differ in the name field
CatcNameDevices ==
    {[device_ip |-> Str(<<"1", ".", "1">>)]}
    \cup {[name |-> v, device_ip |-> Str(<<"1", ".", "1">>)] :
            v \in {NoneV, Str(""), Str("P3-BN1"), IntV(5)}}
    \cup {[name |-> Str("P3-BN2"), device_ip |-> Str(<<"1", "/", "1">>),
            os |-> Str("nxos")]}

\* documents along the path catalyst_center.inventory.devices
CatcDataModels ==
    {EmptyDict, [catalyst_center |-> EmptyDict],
     [catalyst_center |-> [inventory |-> EmptyDict]]}
    \cup {[catalyst_center |-> [inventory |-> [devices |-> ds]]] :
            ds \in SeqsUpTo(CatcNameDevices, 1)}

\* routers that differ in chassis_id, system_hostname and the variable names
SdwanIdentityRouters ==
    LET ids == {EmptyDict, [chassis_id |-> Str("abc123")],
                [chassis_id |-> IntV(123)], [chassis_id |-> Str("")]}
        dvs == {EmptyDict,
                [device_variables |-> EmptyDict],
                [device_variables |-> [vpn511_ip |-> Str(<<"1", "/", "1">>)]],
                [device_variables |->
                    [system_hostname |-> Str("router1"),
                     vpn511_ip |-> Str(<<"1", ".", "1">>)]],
                [device_variables |->
                    [system_hostname |-> Str(""),
                     custom_mgmt_ip |-> Str(<<"1">>)]]}
        ivs == {EmptyDict, [management_ip_variable |-> Str("custom_mgmt_ip")],
                [management_ip_variable |-> Str("vpn511_ip")]}
    IN  {id @@ dv @@ iv : id \in ids, dv \in dvs, iv \in ivs}

\* the site lists of a document: a site may lack its routers key
SdwanSites ==
    LET r1 == [chassis_id |-> Str("abc123"),
               device_variables |-> [system_hostname |-> Str("router1"),
                                     vpn511_ip |-> Str(<<"1", "/", "1">>)]]
        r2 == [chassis_id |-> Str("def456"),
               device_variables |-> [custom_mgmt_ip |-> Str(<<"1">>)]]
        r3 == [chassis_id |-> Str("ghi789"),
               management_ip_variable |-> Str("custom_mgmt_ip"),
               device_variables |-> [vpn511_ip |-> Str(<<"1">>)]]
    IN  SeqsUpTo({[name |-> Str("site1")],
                  [name |-> Str("site2"), routers |-> <<>>],
                  [name |-> Str("site3"), routers |-> <<r1>>],
                  [name |-> Str("site4"), routers |-> <<r2, r3>>]}, 2)

\* documents along the path sdwan.sites[].routers
SdwanSiteModels ==
    {[sdwan |-> [sites |-> ss]] : ss \in SdwanSites}
    \cup {[sdwan |-> [management_ip_variable |-> Str("vpn511_ip"), sites |-> ss]] :
            ss \in SdwanSites}

\* what an extractor can hand to the build step: a string, an empty string,
\* None or a value of another type
FieldValues(name) == {Str(name), Str(""), NoneV, IntV(7)}

\* fragments that carry every field, each with any of those values
BuildFragments ==
    {[hostname |-> h, host |-> ip, os |-> os, device_id |-> id] :
        h \in FieldValues("router1"), ip \in FieldValues("10.1.1.1"),
        os \in FieldValues("iosxe"), id \in FieldValues("device1")}

\* a fragment without one of its fields, and with the field set to a value
Without(d, k) == [x \in DOMAIN d \ {k} |-> d[x]]
With(d, k, v) == (k :> v) @@ d

\* fragments for the resolvers with hooks: complete ones, with and without a
\* state the hook rejects, and ones that lack a field or hold an empty one
HookFragments ==
    {dev1, devInit}
    \cup {Without(d, k) : d \in {dev1, devInit},
                          k \in {"hostname", "host", "os", "device_id"}}
    \cup {With(dev1, k, Str("")) : k \in {"hostname", "host", "os", "device_id"}}

HookDocuments ==
    {[mock |-> [devices |-> ds]] : ds \in SeqsUpTo(HookFragments, 2)}

Shipped == {"CatalystCenterDeviceResolver", "SDWANDeviceResolver"}

\* the devices and the documents the direct calls of a class draw from
DevicesOf(cls) ==
    CASE cls = "CatalystCenterDeviceResolver" -> CatcNameDevices
      [] cls = "SDWANDeviceResolver" -> SdwanIdentityRouters
      [] OTHER -> Fragments

SettingsOf(cls) ==
    CASE cls = "CatalystCenterDeviceResolver" -> {EmptyDict}
      [] cls = "SDWANDeviceResolver" -> SdwanDataModels
      [] OTHER -> {EmptyDict}

DocumentsOf(cls) ==
    CASE cls = "CatalystCenterDeviceResolver" -> CatcDataModels
      [] cls = "SDWANDeviceResolver" -> SdwanDataModels \cup SdwanSiteModels
      [] cls \in {"OverrideResolver", "ValidatingResolver"} ->
            DataModels \cup HookDocuments
      [] OTHER -> DataModels

\* the receiver of a direct call
Receiver(cls, dm) == [cls |-> cls, data_model |-> dm, skipped_devices |-> <<>>]

\* the credentials fixture: both variables of both families are set
CredentialsSet ==
    [MOCK_USERNAME |-> Str("test_user"), MOCK_PASSWORD |-> Str("test_pass"),
     IOSXE_USERNAME |-> Str("test_user"), IOSXE_PASSWORD |-> Str("test_pass")]

InitMethods ==
    /\ resolver = "none"
    /\ data_model = EmptyDict
    /\ skipped_devices = <<>>
    /\ environ = CredentialsSet
    /\ result = NoResult
    /\ probe = NoProbe
    /\ held = NoHeld

\* CatalystCenterDeviceResolver.validate_device_data(device_data)
CallValidateDeviceData(d) ==
    /\ probe = NoProbe
    /\ probe' = [fn |-> "validate_device_data",
                 cls |-> "CatalystCenterDeviceResolver",
                 data_model |-> EmptyDict, arg |-> d,
                 out |-> CatalystCenter_validate_device_data(
                             [cls |-> "CatalystCenterDeviceResolver",
                              data_model |-> EmptyDict], d)]
    /\ UNCHANGED <<resolver, data_model, skipped_devices, environ, result, held>>

\* extract_host_ip(device_data) of one of the two shipped resolvers
CallExtractHostIp(cls, dm, d) ==
    /\ probe = NoProbe
    /\ probe' = [fn |-> "extract_host_ip", cls |-> cls, data_model |-> dm,
                 arg |-> d,
                 out |-> extract_host_ip([cls |-> cls, data_model |-> dm], d)]
    /\ UNCHANGED <<resolver, data_model, skipped_devices, environ, result, held>>

\* the record of a direct call of method fn
Probed(fn, cls, dm, d, out) ==
    [fn |-> fn, cls |-> cls, data_model |-> dm, arg |-> d, out |-> out]

\* extract_device_id(device_data), as the class resolves the name
CallExtractDeviceId(cls, dm, d) ==
    /\ probe = NoProbe
    /\ probe' = Probed("extract_device_id", cls, dm, d,
                        extract_device_id(Receiver(cls, dm), d))
    /\ UNCHANGED <<resolver, data_model, skipped_devices, environ, result, held>>

\* extract_hostname(device_data)
CallExtractHostname(cls, dm, d) ==
    /\ probe = NoProbe
    /\ probe' = Probed("extract_hostname", cls, dm, d,
                        extract_hostname(Receiver(cls, dm), d))
    /\ UNCHANGED <<resolver, data_model, skipped_devices, environ, result, held>>

\* extract_os_type(device_data), as the class resolves the name
CallExtractOsType(cls, dm, d) ==
    /\ probe = NoProbe
    /\ probe' = Probed("extract_os_type", cls, dm, d,
                        extract_os_type(Receiver(cls, dm), d))
    /\ UNCHANGED <<resolver, data_model, skipped_devices, environ, result, held>>

\* build_device_dict(device_data)
CallBuildDeviceDict(cls, dm, d) ==
    /\ probe = NoProbe
    /\ probe' = Probed("build_device_dict", cls, dm, d,
                        build_device_dict(Receiver(cls, dm), d))
    /\ UNCHANGED <<resolver, data_model, skipped_devices, environ, result, held>>

\* _safe_extract_device_id(device_data)
CallSafeExtractDeviceId(cls, dm, d) ==
    /\ probe = NoProbe
    /\ probe' = Probed("_safe_extract_device_id", cls, dm, d,
                        _safe_extract_device_id(Receiver(cls, dm), d))
    /\ UNCHANGED <<resolver, data_model, skipped_devices, environ, result, held>>

\* navigate_to_devices()
CallNavigateToDevices(cls, dm) ==
    /\ probe = NoProbe
    /\ probe' = Probed("navigate_to_devices", cls, dm, NoneV,
                        Ok(navigate_to_devices(Receiver(cls, dm))))
    /\ UNCHANGED <<resolver, data_model, skipped_devices, environ, result, held>>

\* what cls(data_model).get_resolved_inventory() gives: the TypeError of the
\* constructor, or the outcome of the call
construct_and_resolve(cls, dm, env) ==
    IF CanInstantiate(cls)
    THEN get_resolved_inventory(Receiver(cls, dm), env)
    ELSE [skipped_devices |-> <<>>,
          outcome |-> Raise("TypeError", <<"Can't instantiate abstract class ", cls>>)]

\* the record of cls(data_model).get_resolved_inventory()
ProbedCall(cls, dm, call) ==
    [fn |-> "get_resolved_inventory", cls |-> cls, data_model |-> dm,
     arg |-> NoneV, out |-> call.outcome, skipped |-> call.skipped_devices]

\* cls(data_model).get_resolved_inventory() with the credentials set
CallGetResolvedInventory(cls, dm) ==
    /\ probe = NoProbe
    /\ probe' = ProbedCall(cls, dm, construct_and_resolve(cls, dm, environ))
    /\ UNCHANGED <<resolver, data_model, skipped_devices, environ, result, held>>

NextMethods ==
    \/ \E cls \in Shipped : \E dm \in SettingsOf(cls), d \in DevicesOf(cls) :
          \/ CallExtractDeviceId(cls, dm, d)
          \/ CallExtractHostname(cls, dm, d)
          \/ CallExtractOsType(cls, dm, d)
    \/ \E cls \in Shipped : \E dm \in SettingsOf(cls), d \in DevicesOf(cls) \cup SdwanRouters :
          CallBuildDeviceDict(cls, dm, d)
    \/ \E d \in BuildFragments : CallBuildDeviceDict("MockDeviceResolver", EmptyDict, d)
    \/ \E cls \in Classes \ {"IncompleteResolver"} :
          \E dm \in SettingsOf(cls), d \in DevicesOf(cls) :
             CallSafeExtractDeviceId(cls, dm, d)
    \/ \E cls \in Shipped : \E dm \in DocumentsOf(cls) : CallNavigateToDevices(cls, dm)
    \/ \E cls \in Classes \cup {"ValidatingResolver"} :
          \E dm \in DocumentsOf(cls) : CallGetResolvedInventory(cls, dm)
    \/ \E d \in CatcStateDevices : CallValidateDeviceData(d)
    \/ \E d \in CatcIpDevices :
          CallExtractHostIp("CatalystCenterDeviceResolver", EmptyDict, d)
    \/ \E dm \in SdwanDataModels, d \in SdwanRouters :
          CallExtractHostIp("SDWANDeviceResolver", dm, d)

SpecMethods == InitMethods /\ [][NextMethods]_vars

(***************************************************************************)
(* A caller that keeps the lists of one call while it goes on using the    *)
(* resolver with other documents and other credentials.                    *)
(***************************************************************************)
CallerFragments == {dev1, noDeviceId}

CallerDataModels ==
    {[mock |-> [devices |-> ds]] : ds \in SeqsUpTo(CallerFragments, MaxDevices)}

CallerEnvironments ==
    {[MOCK_USERNAME |-> u, MOCK_PASSWORD |-> Str("test_pass")] :
        u \in {NoneV, Str("test_user"), Str("admin")}}

InitCaller ==
    /\ resolver = "none"
    /\ data_model = EmptyDict
    /\ skipped_devices = <<>>
    /\ environ \in CallerEnvironments
    /\ result = NoResult
    /\ probe = NoProbe
    /\ held = NoHeld

\* devices = resolver.get_resolved_inventory(); skipped = resolver.skipped_devices:
\* the caller keeps both lists of the call that has just returned
Keep ==
    /\ result.kind = "return"
    /\ ~held.kept
    /\ held' = [kept |-> TRUE,
                resolved |-> result.val, skipped |-> skipped_devices,
                resolved_now |-> result.val, skipped_now |-> skipped_devices]
    /\ UNCHANGED <<resolver, data_model, skipped_devices, environ, result, probe>>

NextCaller ==
    \/ \E cls \in {"MockDeviceResolver", "OverrideResolver"} :
          \E dm \in CallerDataModels : Construct(cls, dm)
    \/ \E dm \in CallerDataModels : SetDataModel(dm)
    \/ \E env \in CallerEnvironments : SetEnviron(env)
    \/ Resolve
    \/ Keep

SpecCaller == InitCaller /\ [][NextCaller]_vars

(***************************************************************************)
(* Vocabulary of the properties                                            *)
(***************************************************************************)
\* a get_resolved_inventory call has just completed on data_model / environ
Called == result.kind \in {"return", "raise"}

AllDevices == navigate_to_devices(Self)

\* every fragment is a mapping, as the data model of the specification has it
WellFormed == \A i \in 1..Len(AllDevices) : IsMapping(AllDevices[i])

Unset(v) == v = NoneV \/ v = Str("")
UsernameMissing == Unset(environ["MOCK_USERNAME"])
PasswordMissing == Unset(environ["MOCK_PASSWORD"])
CredsMissing == UsernameMissing \/ PasswordMissing

IsCredentialError(r) ==
    /\ r.kind = "raise"
    /\ r.exc = "ValueError"
    /\ Len(r.msg) > 0
    /\ r.msg[1] = "Missing required credential environment variables: "

\* the fragment passes validation and construction on its own
Passes(d) == resolve_device(Self, d).ok

PassingDevices(ds) == SelectSeq(ds, LAMBDA d : Passes(d))
FailingDevices(ds) == SelectSeq(ds, LAMBDA d : ~Passes(d))

\* the skip entry a failing fragment stands for
SkipRecordOf(d) ==
    [device_id |-> IF extract_device_id(Self, d).ok
                   THEN extract_device_id(Self, d).val ELSE Str("<unknown>"),
     reason |-> resolve_device(Self, d).msg]

SkipRecordsOf(ds) ==
    [i \in 1..Len(FailingDevices(ds)) |-> SkipRecordOf(FailingDevices(ds)[i])]

\* the fragment makes the loop raise instead of skipping it
Escapes(d) ==
    /\ ~Passes(d)
    /\ \/ resolve_device(Self, d).exc \notin {"KeyError", "ValueError"}
       \/ /\ ~extract_device_id(Self, d).ok
          /\ extract_device_id(Self, d).exc \notin {"KeyError", "ValueError"}

\* the fragments the loop got through before it ended
Processed ==
    IF \E i \in 1..Len(AllDevices) : Escapes(AllDevices[i])
    THEN SubSeq(AllDevices, 1,
             (CHOOSE i \in 1..Len(AllDevices) :
                 /\ Escapes(AllDevices[i])
                 /\ \A j \in 1..(i - 1) : ~Escapes(AllDevices[j])) - 1)
    ELSE AllDevices

RequiredFields == {"hostname", "host", "os", "device_id", "username", "password"}

(***************************************************************************)
(* Properties of get_resolved_inventory                                    *)
(***************************************************************************)
\* C1: per-device isolation.  With credentials set and every fragment a
\* mapping, the call returns; the returned list holds, in order, the record
\* of every fragment that passes on its own, whatever its siblings do, and
\* every failing fragment accounts for one entry of skipped_devices.
C1_PerDeviceIsolation ==
    (Called /\ WellFormed /\ ~CredsMissing) =>
        /\ result.kind = "return"
        /\ Len(result.val) = Len(PassingDevices(AllDevices))
        /\ \A i \in 1..Len(result.val) :
              LET built == build_device_dict(Self, PassingDevices(AllDevices)[i]).val
              IN  \A k \in DOMAIN built : result.val[i][k] = built[k]
        /\ Len(skipped_devices) = Len(FailingDevices(AllDevices))

\* C1 witness: a failing fragment is followed by a sibling that is resolved
C1_Witness ==
    /\ result.kind = "return"
    /\ Len(AllDevices) = 2
    /\ ~Passes(AllDevices[1])
    /\ Passes(AllDevices[2])
    /\ Len(result.val) = 1
    /\ Len(skipped_devices) = 1

\* C2: fail-fast on credentials.  Whenever one of the two variables is unset
\* or empty, the call on any document of resolvable and skippable devices
\* raises the credential error and hands no list back.
C2_FailFastOnCredentials ==
    (Called /\ WellFormed /\ CredsMissing) =>
        /\ IsCredentialError(result)
        /\ result.val = NoneV

\* C2 witness: the error is raised although one device resolved and one was
\* skipped
C2_Witness ==
    /\ IsCredentialError(result)
    /\ Len(PassingDevices(AllDevices)) = 1
    /\ Len(FailingDevices(AllDevices)) = 1

\* C3: the credential error names the username variable iff the username is
\* missing, the password variable iff the password is missing, the username
\* first when both are, and always the architecture.
C3_ErrorNamesMissingVariables ==
    IsCredentialError(result) =>
        /\ Contains(result.msg, "MOCK_USERNAME") <=> UsernameMissing
        /\ Contains(result.msg, "MOCK_PASSWORD") <=> PasswordMissing
        /\ (UsernameMissing /\ PasswordMissing) =>
              \E i, j \in 1..Len(result.msg) :
                  /\ i < j
                  /\ result.msg[i] = "MOCK_USERNAME"
                  /\ result.msg[j] = "MOCK_PASSWORD"
        /\ Contains(result.msg, "mock_arch")

\* C3 witness: both variables are missing and the error was raised
C3_Witness ==
    /\ IsCredentialError(result)
    /\ UsernameMissing
    /\ PasswordMissing

\* C4 as stated: when the credential error is raised, nothing of the aborted
\* call is observable, neither a list nor skip records in skipped_devices.
C4_NoOutputObservable ==
    IsCredentialError(result) =>
        /\ result.val = NoneV
        /\ skipped_devices = <<>>

\* C4 amended: when the credential error is raised no resolved list is handed
\* back, but skipped_devices already holds the skip records of the aborted
\* call, one for every fragment that failed.
C4_SkipsRecordedBeforeAbort ==
    IsCredentialError(result) =>
        /\ result.val = NoneV
        /\ skipped_devices = SkipRecordsOf(AllDevices)
        /\ Len(skipped_devices) = Len(FailingDevices(AllDevices))

\* C4 witness: the call aborted on the credentials and left a skip record
C4_Witness ==
    /\ IsCredentialError(result)
    /\ Len(FailingDevices(AllDevices)) > 0
    /\ Len(skipped_devices) > 0

\* C5: on a successful return every record carries the username and the
\* password the environment held during the call.
C5_CredentialInjection ==
    result.kind = "return" =>
        \A i \in 1..Len(result.val) :
            /\ {"username", "password"} \subseteq DOMAIN result.val[i]
            /\ result.val[i]["username"] = environ["MOCK_USERNAME"]
            /\ result.val[i]["password"] = environ["MOCK_PASSWORD"]

\* C5 witness: two records were returned
C5_Witness ==
    /\ result.kind = "return"
    /\ Len(result.val) = 2

\* C6: after a call skipped_devices holds the skip records of that call only:
\* those of the failing fragments the loop got through, and nothing that was
\* in the list when the call began.
C6_SkippedReset ==
    Called => skipped_devices = SkipRecordsOf(Processed)

\* C6 witness: the call began with entries of an earlier call in the list and
\* ended with none of them
C6_Witness ==
    /\ Called
    /\ Len(result.entry_skipped) > 0
    /\ \A i \in 1..Len(skipped_devices), j \in 1..Len(result.entry_skipped) :
          skipped_devices[i] # result.entry_skipped[j]

\* C7 as stated: the call raises nothing but the credential error.
C7_OnlyCredentialErrorRaised ==
    result.kind = "raise" => IsCredentialError(result)

\* C8 as stated: every returned record has the six fields, each a non-empty
\* string, whichever class builds it.
C8_RecordShape ==
    result.kind = "return" =>
        \A i \in 1..Len(result.val), f \in RequiredFields :
            /\ f \in DOMAIN result.val[i]
            /\ IsStr(result.val[i][f])
            /\ Truthy(result.val[i][f])

(***************************************************************************)
(* Properties of the adapter methods                                       *)
(***************************************************************************)
NoSlash(t) == \A i \in 1..Len(t) : t[i] # "/"

\* the part of a text before its first "/", the whole text when it has none
BeforeFirstSlash(t) ==
    CHOOSE p \in {SubSeq(t, 1, k) : k \in 0..Len(t)} :
        /\ NoSlash(p)
        /\ Len(p) = Len(t) \/ t[Len(p) + 1] = "/"

\* the raw IP value extract_host_ip is given: device_ip for Catalyst Center,
\* for SD-WAN the device variable named by the router-level
\* management_ip_variable or else by the global one; NoneV when there is none
RawIp ==
    IF probe.cls = "CatalystCenterDeviceResolver"
    THEN IF "device_ip" \in DOMAIN probe.arg THEN probe.arg["device_ip"] ELSE NoneV
    ELSE LET own == IF "management_ip_variable" \in DOMAIN probe.arg
                    THEN probe.arg["management_ip_variable"].val ELSE ""
             global == IF /\ "sdwan" \in DOMAIN probe.data_model
                          /\ "management_ip_variable" \in DOMAIN probe.data_model["sdwan"]
                       THEN probe.data_model["sdwan"]["management_ip_variable"].val
                       ELSE ""
             name == IF own # "" THEN own ELSE global
             dv == IF "device_variables" \in DOMAIN probe.arg
                   THEN probe.arg["device_variables"] ELSE EmptyDict
         IN  IF name # "" /\ name \in DOMAIN dv THEN dv[name] ELSE NoneV

\* C9: extract_host_ip of both shipped resolvers, given a raw IP text, returns
\* the part before the first "/" when the text has one and the text itself
\* when it has none, so what it returns never contains a "/".
C9_CidrStripping ==
    probe.fn = "extract_host_ip" =>
        /\ (IsStr(RawIp) /\ HasSlash(RawIp.val)) =>
              /\ probe.out.ok
              /\ probe.out.val = Str(BeforeFirstSlash(RawIp.val))
        /\ (IsStr(RawIp) /\ ~HasSlash(RawIp.val) /\ probe.out.ok) =>
              probe.out.val = RawIp
        /\ probe.out.ok => IsStr(probe.out.val) /\ NoSlash(probe.out.val.val)

\* C9 witness: a raw text with a "/" after its first character was cut
C9_Witness ==
    /\ probe.fn = "extract_host_ip"
    /\ IsStr(RawIp)
    /\ HasSlash(RawIp.val)
    /\ probe.out.ok
    /\ Len(probe.out.val.val) > 0
    /\ Len(probe.out.val.val) < Len(RawIp.val) - 1

SameLetter(a, b) ==
    \/ a = b
    \/ {a, b} \in {{"i", "I"}, {"n", "N"}, {"t", "T"}, {"p", "P"}}

\* the two texts are equal up to the case of their letters
EqualIgnoringCase(t, w) ==
    /\ Len(t) = Len(w)
    /\ \A i \in 1..Len(t) : SameLetter(t[i], w[i])

\* C10 as stated: validate_device_data of the Catalyst Center resolver rejects
\* a device whose state is INIT or PNP in any case, with a reason that holds
\* "unsupported state '<STATE>'" and "not fully provisioned", and raises
\* nothing for any other state value or for a device without a state.
C10_StateBasedSkip ==
    probe.fn = "validate_device_data" =>
        LET state == IF "state" \in DOMAIN probe.arg THEN probe.arg["state"] ELSE NoneV
            unsupported ==
                /\ IsStr(state)
                /\ EqualIgnoringCase(state.val, INIT) \/ EqualIgnoringCase(state.val, PNP)
        IN  IF unsupported
            THEN /\ ~probe.out.ok
                 /\ probe.out.exc = "ValueError"
                 /\ \E i \in 1..(Len(probe.out.msg) - 2) :
                       /\ probe.out.msg[i] = "unsupported state '"
                       /\ probe.out.msg[i + 1] \in {"INIT", "PNP"}
                       /\ probe.out.msg[i + 2] = "'"
                 /\ Contains(probe.out.msg, "not fully provisioned")
            ELSE probe.out.ok
(***************************************************************************)
(* Vocabulary of the direct calls                                          *)
(***************************************************************************)
CalledMethod(fn, cls) == probe # NoProbe /\ probe.fn = fn /\ probe.cls = cls

\* the value of a field of the fragment a method was called on, None if absent
ArgField(k) == Get(probe.arg, k, NoneV)

\* C11 as stated: extract_device_id and extract_hostname of the Catalyst
\* Center resolver both return the name field and both raise an error holding
\* "missing 'name' field" when name is absent or empty, and a record built
\* for a device has device_id = hostname = name.
C11_CatalystCenterIdentity ==
    /\ (\/ CalledMethod("extract_device_id", "CatalystCenterDeviceResolver")
        \/ CalledMethod("extract_hostname", "CatalystCenterDeviceResolver"))
          => IF Truthy(ArgField("name"))
             THEN probe.out = Ok(StrOf(ArgField("name")))
             ELSE /\ ~probe.out.ok
                  /\ Contains(probe.out.msg, "missing 'name' field")
    /\ (CalledMethod("build_device_dict", "CatalystCenterDeviceResolver") /\ probe.out.ok)
          => /\ probe.out.val.device_id = StrOf(ArgField("name"))
             /\ probe.out.val.hostname = StrOf(ArgField("name"))

\* the router has a chassis_id and no system_hostname among its variables
HostnameMissing ==
    /\ Truthy(ArgField("chassis_id"))
    /\ "system_hostname" \notin DOMAIN Get(probe.arg, "device_variables", EmptyDict)

\* the management IP of the router resolves to a non-empty address
IpResolvable ==
    LET ip == SDWAN_extract_host_ip(Receiver(probe.cls, probe.data_model), probe.arg)
    IN  ip.ok /\ Truthy(ip.val)

\* C12 as stated: extract_hostname of the SD-WAN resolver never raises for a
\* missing system_hostname and gives the chassis_id, and a router with a
\* chassis_id and a resolvable management IP but no system_hostname is built
\* into a record whose hostname is its chassis_id rather than skipped.
C12_HostnameFallback ==
    /\ (CalledMethod("extract_hostname", "SDWANDeviceResolver") /\ HostnameMissing)
          => probe.out = Ok(StrOf(ArgField("chassis_id")))
    /\ (CalledMethod("build_device_dict", "SDWANDeviceResolver")
          /\ HostnameMissing /\ IpResolvable)
          => /\ probe.out.ok
             /\ probe.out.val.hostname = StrOf(ArgField("chassis_id"))
\* the management_ip_variable set on the router and at the sdwan level
RouterLevelVariable == ArgField("management_ip_variable")
GlobalVariable ==
    Get(Get(probe.data_model, "sdwan", EmptyDict), "management_ip_variable", NoneV)

DeviceVariables == Get(probe.arg, "device_variables", EmptyDict)

\* what extract_host_ip gives when name is the key it looks up: the value of
\* that device variable cut at the first "/", or the error naming the key
LookedUpUnder(name) ==
    IF name \in DOMAIN DeviceVariables
    THEN probe.out = Ok(Str(BeforeFirstSlash(PyStr(DeviceVariables[name]))))
    ELSE /\ ~probe.out.ok
         /\ \E i \in 1..Len(probe.out.msg) : probe.out.msg[i] = name

\* C13: extract_host_ip of the SD-WAN resolver looks the address up under the
\* router-level management_ip_variable whenever that is set, also when the
\* global one is set too, and under the global name only when the router has
\* none.
C13_RouterVariablePrecedence ==
    CalledMethod("extract_host_ip", "SDWANDeviceResolver") =>
        /\ Truthy(RouterLevelVariable) => LookedUpUnder(RouterLevelVariable.val)
        /\ (~Truthy(RouterLevelVariable) /\ Truthy(GlobalVariable))
              => LookedUpUnder(GlobalVariable.val)

\* C13 witness: both levels name a variable, the two variables hold different
\* addresses, and the call returned the router-level one
C13_Witness ==
    /\ CalledMethod("extract_host_ip", "SDWANDeviceResolver")
    /\ Truthy(RouterLevelVariable) /\ Truthy(GlobalVariable)
    /\ RouterLevelVariable # GlobalVariable
    /\ {RouterLevelVariable.val, GlobalVariable.val} \subseteq DOMAIN DeviceVariables
    /\ DeviceVariables[RouterLevelVariable.val] # DeviceVariables[GlobalVariable.val]
    /\ probe.out = Ok(DeviceVariables[RouterLevelVariable.val])
\* the variable name extract_host_ip settles on, None when neither level has one
ChosenVariable ==
    IF Truthy(RouterLevelVariable) THEN RouterLevelVariable ELSE GlobalVariable

\* the routers of the document whose management IP lookup fails with one of
\* the two configuration errors
UnresolvableRouters ==
    LET self == Receiver(probe.cls, probe.data_model)
        routers == SDWAN_navigate_to_devices(self)
    IN  {i \in 1..Len(routers) :
            LET ip == SDWAN_extract_host_ip(self, routers[i])
            IN  /\ ~ip.ok
                /\ \/ Contains(ip.msg, "management_ip_variable not configured")
                   \/ Contains(ip.msg, "not found in device_variables")}

\* C14 as stated: extract_host_ip of the SD-WAN resolver raises an error
\* holding "management_ip_variable not configured" when no level names a
\* variable and one holding "not found in device_variables" and the name when
\* the named variable is missing from device_variables, and resolving a
\* document leaves, for each such router, a skip entry with its chassis_id and
\* that reason.
C14_ManagementIpErrors ==
    /\ CalledMethod("extract_host_ip", "SDWANDeviceResolver") =>
          /\ ~Truthy(ChosenVariable) =>
                /\ ~probe.out.ok
                /\ Contains(probe.out.msg, "management_ip_variable not configured")
          /\ (Truthy(ChosenVariable) /\ ChosenVariable.val \notin DOMAIN DeviceVariables) =>
                /\ ~probe.out.ok
                /\ Contains(probe.out.msg, "not found in device_variables")
                /\ Contains(probe.out.msg, ChosenVariable.val)
    /\ CalledMethod("get_resolved_inventory", "SDWANDeviceResolver") =>
          \A i \in UnresolvableRouters :
              LET self == Receiver(probe.cls, probe.data_model)
                  router == SDWAN_navigate_to_devices(self)[i]
              IN  \E j \in 1..Len(probe.skipped) :
                     /\ probe.skipped[j].device_id = StrOf(Get(router, "chassis_id", NoneV))
                     /\ probe.skipped[j].reason = SDWAN_extract_host_ip(self, router).msg
\* hostname, management IP and device id of the router all extract to
\* non-empty strings
IdentityExtracts ==
    LET self == Receiver(probe.cls, probe.data_model)
        hostname == SDWAN_extract_hostname(self, probe.arg)
        device_id == SDWAN_extract_device_id(self, probe.arg)
    IN  /\ IpResolvable
        /\ hostname.ok /\ Truthy(hostname.val)
        /\ device_id.ok /\ Truthy(device_id.val)

\* C15 as stated: build_device_dict of the SD-WAN resolver turns a router
\* whose fields extract into a record that has platform = "sdwan" and
\* type = "router" next to hostname, host, os and device_id.
C15_SdwanExtraFields ==
    (CalledMethod("build_device_dict", "SDWANDeviceResolver") /\ IdentityExtracts)
        => /\ probe.out.ok
           /\ {"hostname", "host", "os", "device_id", "platform", "type"}
                 \subseteq DOMAIN probe.out.val
           /\ probe.out.val["platform"] = Str("sdwan")
           /\ probe.out.val["type"] = Str("router")

\* C16 as stated: the OS type of both shipped resolvers is the constant
\* "iosxe" whatever the fragment holds, and so is the os of every record they
\* build.
C16_ConstantOsType ==
    /\ (probe # NoProbe /\ probe.fn = "extract_os_type" /\ probe.cls \in Shipped)
          => probe.out = Ok(Str("iosxe"))
    /\ (probe # NoProbe /\ probe.fn = "build_device_dict" /\ probe.cls \in Shipped
          /\ probe.out.ok)
          => probe.out.val["os"] = Str("iosxe")

\* a key of the root path of the class is missing from the document
PathMissing ==
    LET dm == probe.data_model
    IN  IF probe.cls = "CatalystCenterDeviceResolver"
        THEN \/ "catalyst_center" \notin DOMAIN dm
             \/ "inventory" \notin DOMAIN dm["catalyst_center"]
             \/ "devices" \notin DOMAIN dm["catalyst_center"]["inventory"]
        ELSE \/ "sdwan" \notin DOMAIN dm
             \/ "sites" \notin DOMAIN dm["sdwan"]
             \/ \A i \in 1..Len(dm["sdwan"]["sites"]) :
                   "routers" \notin DOMAIN dm["sdwan"]["sites"][i]

\* C17 as stated: navigate_to_devices of both shipped resolvers raises nothing
\* and gives the empty list when a key of its root path is missing, and
\* get_resolved_inventory on such a document, credentials set, returns the
\* empty list.
C17_NavigationTolerance ==
    (probe # NoProbe /\ probe.cls \in Shipped /\ PathMissing) =>
        /\ probe.fn = "navigate_to_devices" => probe.out = Ok(<<>>)
        /\ probe.fn = "get_resolved_inventory" => probe.out = Ok(<<>>)

\* C18 as stated: both shipped resolvers supply every required operation and
\* so can be constructed; only a class that leaves one out is refused.
C18_RequiredOperationsSupplied ==
    /\ result.kind = "construct" => result.msg[2] \notin Shipped
    /\ resolver # "IncompleteResolver"
\* C19 as stated: _safe_extract_device_id never raises, whatever the
\* fragment: it gives what extract_device_id gives when that succeeds and
\* "<unknown>" when it fails, and that is the device_id of a skip record.
C19_BestEffortDeviceId ==
    /\ (probe # NoProbe /\ probe.fn = "_safe_extract_device_id") =>
          LET id == extract_device_id(Receiver(probe.cls, probe.data_model), probe.arg)
          IN  /\ probe.out.ok
              /\ probe.out.val = IF id.ok THEN id.val ELSE Str("<unknown>")
    /\ (probe # NoProbe /\ probe.fn = "get_resolved_inventory") =>
          \A j \in 1..Len(probe.skipped) :
              LET self == Receiver(probe.cls, probe.data_model)
                  fragments == navigate_to_devices(self)
              IN  \/ probe.skipped[j].device_id = Str("<unknown>")
                  \/ \E i \in 1..Len(fragments) :
                        extract_device_id(self, fragments[i])
                            = Ok(probe.skipped[j].device_id)

\* C20: a call of get_resolved_inventory that comes right after another one,
\* the data model and the environment unchanged, ends as the earlier one did
\* (same returned list or same error) and leaves the same skipped_devices.
C20_IdempotentResolution ==
    [][(Called /\ result'.kind \in {"return", "raise"}) =>
          /\ data_model' = data_model /\ environ' = environ
          /\ result'.ok = result.ok
          /\ result'.exc = result.exc
          /\ result'.msg = result.msg
          /\ result'.val = result.val
          /\ skipped_devices' = skipped_devices]_vars

\* C20 witness: a repeated call has returned a record and skipped a fragment
C20_Witness ==
    /\ Called /\ result.again
    /\ result.ok /\ Len(result.val) > 0
    /\ Len(skipped_devices) > 0

(***************************************************************************)
(* Properties of the build step and of the loop's checks                   *)
(***************************************************************************)
\* the four values in the order the build step checks them, and how its
\* error message names each
CheckedKeys == <<"hostname", "host", "os", "device_id">>
CheckedLabels == <<"Invalid hostname: ", "Invalid host IP: ",
                   "Invalid OS type: ", "Invalid device ID: ">>

\* a value the build step refuses: anything but a non-empty string
Refused(v) == ~(IsStr(v) /\ v # Str(""))

\* C23: the default build_device_dict, given the four values of the
\* extractors, raises ValueError for the first of hostname, host IP, OS type
\* and device ID that is not a non-empty string, the message naming the field
\* and showing the value; when all four are non-empty strings it returns the
\* record with exactly the keys hostname, host, os and device_id.
C23_DefaultBuildChecks ==
    (/\ CalledMethod("build_device_dict", "MockDeviceResolver")
     /\ \A i \in 1..4 : CheckedKeys[i] \in DOMAIN probe.arg) =>
        IF \E i \in 1..4 : Refused(probe.arg[CheckedKeys[i]])
        THEN LET first == CHOOSE i \in 1..4 :
                              /\ Refused(probe.arg[CheckedKeys[i]])
                              /\ \A j \in 1..(i - 1) : ~Refused(probe.arg[CheckedKeys[j]])
             IN  /\ ~probe.out.ok
                 /\ probe.out.exc = "ValueError"
                 /\ probe.out.msg = <<CheckedLabels[first]>>
                                      \o Repr(probe.arg[CheckedKeys[first]])
        ELSE /\ probe.out.ok
             /\ DOMAIN probe.out.val = {"hostname", "host", "os", "device_id"}
             /\ \A k \in DOMAIN probe.out.val : probe.out.val[k] = probe.arg[k]

\* C23 witness: the host IP is None and the OS type is empty; the error is
\* that of the host IP
C23_Witness ==
    /\ CalledMethod("build_device_dict", "MockDeviceResolver")
    /\ probe.arg = [hostname |-> Str("router1"), host |-> NoneV,
                    os |-> Str(""), device_id |-> Str("device1")]
    /\ probe.out.msg = <<"Invalid host IP: ", "None">>

(***************************************************************************)
(* Properties of the SD-WAN navigation                                     *)
(***************************************************************************)
\* the sites of the document a method was called on
SitesOf(dm) == Get(Get(dm, "sdwan", EmptyDict), "sites", <<>>)

\* the routers of a site, none when the site has no routers key
RoutersOf(site) == Get(site, "routers", <<>>)

RECURSIVE RoutersBefore(_, _)
\* how many routers the sites in front of site k hold
RoutersBefore(sites, k) ==
    IF k <= 1 THEN 0
    ELSE RoutersBefore(sites, k - 1) + Len(RoutersOf(sites[k - 1]))

\* C25: navigate_to_devices of the SD-WAN resolver returns exactly the
\* routers of all sites under sdwan.sites, each once: router j of site k
\* stands behind all routers of the sites before k and behind the routers
\* before j of its own site, and a site without a routers key adds nothing.
C25_SdwanNavigationFlattens ==
    CalledMethod("navigate_to_devices", "SDWANDeviceResolver") =>
        LET sites == SitesOf(probe.data_model)
        IN  /\ probe.out.ok
            /\ Len(probe.out.val) = RoutersBefore(sites, Len(sites) + 1)
            /\ \A k \in 1..Len(sites) :
                  \A j \in 1..Len(RoutersOf(sites[k])) :
                     probe.out.val[RoutersBefore(sites, k) + j] = RoutersOf(sites[k])[j]

\* C25 witness: two sites with routers, one router and then two, give three
\* routers, the router of the first site in front
C25_Witness ==
    /\ CalledMethod("navigate_to_devices", "SDWANDeviceResolver")
    /\ Len(SitesOf(probe.data_model)) = 2
    /\ Len(RoutersOf(SitesOf(probe.data_model)[1])) = 1
    /\ Len(RoutersOf(SitesOf(probe.data_model)[2])) = 2
    /\ Len(probe.out.val) = 3
    /\ probe.out.val[1] = RoutersOf(SitesOf(probe.data_model)[1])[1]

\* the router names a variable of its own that its device_variables lack,
\* while the variable named at the sdwan level of document dm is there
FallbackAtHand(dm, router) ==
    LET router_var == Get(router, "management_ip_variable", NoneV)
        global_var == Get(Get(dm, "sdwan", EmptyDict), "management_ip_variable", NoneV)
        device_vars == Get(router, "device_variables", EmptyDict)
    IN  /\ Truthy(router_var) /\ router_var.val \notin DOMAIN device_vars
        /\ Truthy(global_var) /\ global_var.val \in DOMAIN device_vars

\* C30 as stated: when a router names a management_ip_variable of its own that
\* is not a key of its device_variables, extract_host_ip raises the "not found
\* in device_variables" error naming the router-level variable, also when the
\* global variable names a key that is there, and resolving the document
\* leaves a skip entry for the router with that reason.
C30_NoFallbackOnceChosen ==
    /\ (/\ CalledMethod("extract_host_ip", "SDWANDeviceResolver")
        /\ FallbackAtHand(probe.data_model, probe.arg)) =>
          /\ ~probe.out.ok
          /\ Contains(probe.out.msg, "not found in device_variables")
          /\ Contains(probe.out.msg, RouterLevelVariable.val)
    /\ CalledMethod("get_resolved_inventory", "SDWANDeviceResolver") =>
          LET routers == SDWAN_navigate_to_devices(Receiver(probe.cls, probe.data_model))
          IN  \A i \in 1..Len(routers) :
                 FallbackAtHand(probe.data_model, routers[i]) =>
                    \E j \in 1..Len(probe.skipped) :
                       /\ probe.skipped[j].device_id
                             = StrOf(Get(routers[i], "chassis_id", NoneV))
                       /\ Contains(probe.skipped[j].reason, "not found in device_variables")

(***************************************************************************)
(* Properties of the hooks in get_resolved_inventory                       *)
(***************************************************************************)
\* the receiver and the fragments of a probed get_resolved_inventory call
ProbeSelf == Receiver(probe.cls, probe.data_model)
ProbeFragments == navigate_to_devices(ProbeSelf)

\* the fragments the call did not resolve, in navigation order
Unresolved == SelectSeq(ProbeFragments, LAMBDA d : ~resolve_device(ProbeSelf, d).ok)

Resolved(cls) ==
    /\ probe # NoProbe
    /\ probe.fn = "get_resolved_inventory"
    /\ probe.cls = cls
    /\ probe.out.ok

\* C22: validation precedes construction.  A fragment the validation hook
\* rejects is skipped with the hook's reason, whatever the build step would
\* have made of it: also when the fragment lacks fields the record needs.
C22_ValidationPrecedesConstruction ==
    \A cls \in {"OverrideResolver", "ValidatingResolver"} :
        Resolved(cls) =>
            /\ Len(probe.skipped) = Len(Unresolved)
            /\ \A j \in 1..Len(Unresolved) :
                  LET v == validate_device_data(ProbeSelf, Unresolved[j])
                  IN  ~v.ok => probe.skipped[j].reason = v.msg

\* C22 witness: a fragment in INIT state that has no host key is skipped by
\* the resolver with the default build step, the reason the unsupported state
C22_Witness ==
    /\ Resolved("ValidatingResolver")
    /\ ProbeFragments = <<Without(devInit, "host")>>
    /\ Len(probe.skipped) = 1
    /\ probe.skipped[1].device_id = Str("device2")
    /\ Contains(probe.skipped[1].reason, "unsupported state '")
    /\ Contains(probe.skipped[1].reason, "INIT")

\* the keys of CheckedKeys that record b lacks or holds an empty value for
EmptyOrMissing(b) ==
    {CheckedKeys[k] : k \in {i \in 1..4 : ~Truthy(Get(b, CheckedKeys[i], NoneV))}}

\* C24: defense in depth.  When the build_device_dict override hands back a
\* record in which hostname, host, os or device_id is missing or empty, the
\* record is not in the returned list, and skipped_devices holds an entry
\* for the fragment whose reason names such a field.
C24_DefenseInDepth ==
    Resolved("OverrideResolver") =>
        /\ \A j \in 1..Len(probe.out.val) : EmptyOrMissing(probe.out.val[j]) = {}
        /\ \A i \in 1..Len(ProbeFragments) :
              LET d == ProbeFragments[i]
                  b == build_device_dict(ProbeSelf, d)
              IN  (/\ validate_device_data(ProbeSelf, d).ok
                   /\ b.ok /\ EmptyOrMissing(b.val) # {}) =>
                      \E j \in 1..Len(probe.skipped) :
                         /\ probe.skipped[j].device_id
                               = _safe_extract_device_id(ProbeSelf, d).val
                         /\ probe.skipped[j].reason[1] \in EmptyOrMissing(b.val)

\* C24 witness: the override hands back a record with an empty host and one
\* that is complete; the first is skipped for its host, the second returned
C24_Witness ==
    /\ Resolved("OverrideResolver")
    /\ ProbeFragments = <<With(dev1, "host", Str("")), dev1>>
    /\ Len(probe.out.val) = 1
    /\ probe.out.val[1].host = Str("10.1.1.1")
    /\ probe.skipped = <<[device_id |-> Str("device1"),
                          reason |-> <<"host", " (IP address) is empty or missing">>]>>

(***************************************************************************)
(* Properties of the two output lists                                      *)
(***************************************************************************)
\* r is the record the build step makes of fragment d, credentials apart
IsRecordOf(r, d) ==
    LET b == build_device_dict(Self, d)
    IN  /\ b.ok
        /\ \A k \in DOMAIN b.val : k \in DOMAIN r /\ r[k] = b.val[k]

InResolved(d) == \E j \in 1..Len(result.val) : IsRecordOf(result.val[j], d)
InSkipped(d) == \E j \in 1..Len(skipped_devices) : skipped_devices[j] = SkipRecordOf(d)

\* C26: partition of the batch.  After a call that returned, the records and
\* the skip entries together are as many as the fragments, and every
\* fragment has either its record in the returned list or its entry in
\* skipped_devices, not both and not neither.
C26_PartitionOfTheBatch ==
    (Called /\ result.ok) =>
        /\ Len(result.val) + Len(skipped_devices) = Len(AllDevices)
        /\ \A i \in 1..Len(AllDevices) :
              InResolved(AllDevices[i]) # InSkipped(AllDevices[i])

\* C26 witness: of two fragments the first is returned and the second skipped
C26_Witness ==
    /\ Called /\ result.ok
    /\ Len(AllDevices) = 2
    /\ InResolved(AllDevices[1]) /\ ~InSkipped(AllDevices[1])
    /\ InSkipped(AllDevices[2]) /\ ~InResolved(AllDevices[2])

\* C27: order preservation.  The returned list holds the records of the
\* resolved fragments in the order navigation gave the fragments, and
\* skipped_devices the entries of the failed fragments in that order.
C27_OrderPreservation ==
    (Called /\ result.ok) =>
        /\ Len(result.val) = Len(PassingDevices(AllDevices))
        /\ \A j \in 1..Len(result.val) :
              IsRecordOf(result.val[j], PassingDevices(AllDevices)[j])
        /\ skipped_devices = SkipRecordsOf(AllDevices)

\* C27 witness: two different fragments are resolved, the record of the first
\* in front of the record of the second
C27_Witness ==
    /\ Called /\ result.ok
    /\ Len(AllDevices) = 2
    /\ AllDevices[1] # AllDevices[2]
    /\ Len(result.val) = 2
    /\ result.val[1].device_id = AllDevices[1].device_id
    /\ result.val[2].device_id = AllDevices[2].device_id
    /\ result.val[1].device_id # result.val[2].device_id

\* C28: the credential check does not depend on the inventory.  With a
\* variable missing the call raises the credential error also when the
\* document holds no fragment or every fragment was skipped, and by then all
\* fragments have been processed: skipped_devices holds their entries.
C28_CredentialCheckWithoutDevices ==
    (/\ Called /\ CredsMissing
     /\ \A i \in 1..Len(AllDevices) : ~Escapes(AllDevices[i])
     /\ Len(PassingDevices(AllDevices)) = 0) =>
        /\ IsCredentialError(result)
        /\ skipped_devices = SkipRecordsOf(AllDevices)

\* C28 witness: both fragments of the document were skipped and the call
\* raised the credential error
C28_Witness ==
    /\ Called /\ CredsMissing
    /\ Len(AllDevices) = 2
    /\ Len(skipped_devices) = 2
    /\ IsCredentialError(result)

(***************************************************************************)
(* Properties of what a call leaves alone                                  *)
(***************************************************************************)
\* the class builds its records with the build_device_dict of the base class
UsesDefaultBuild(cls) == "build_device_dict" \notin DefinedMethods(cls)

====
